---- MODULE Spec2Model ----
(***************************************************************************)
(* Model of cm6206ctl: the command line run of main() against a CM6206     *)
(* USB sound card, with the HID register transactions cm6206_read and      *)
(* cm6206_write, the register refresh readAllRegisters and the argument    *)
(* parser parseArgumentsToConfig.  The device and the HID transport are    *)
(* the environment: hid_write / hid_read return values and the status      *)
(* byte of a reply are chosen nondeterministically.                        *)
(***************************************************************************)
EXTENDS Integers, Sequences, FiniteSets, TLC

VARIABLES pc, argsLeft, opts, arg, call, cfg, hw, regbuf, n, sent, rlen, rbuf, log, exitStatus

vars == <<pc, argsLeft, opts, arg, call, cfg, hw, regbuf, n, sent, rlen, rbuf, log, exitStatus>>

----------------------------------------------------------------------------
(* Bounds of the model *)

\* argc ranges over 1..MaxArgc: at most MaxArgc - 1 arguments follow the
\* program name
MaxArgc == 5
\* number of sample 16-bit words used for register contents, -m and -w
NumVals == 3

----------------------------------------------------------------------------
(* Program constants *)

NUM_REGS == 6
EXIT_FAILURE == 1
\* sizeof(buf) of the 5-byte HID report
REPORT_SIZE == 5
\* number of bits of uint16_t
WORD_BITS == 16

Regs == 0 .. (NUM_REGS - 1)

\* REG_DEFAULT = {0x2000, 0x3002, 0x6004, 0x147f, 0x0000, 0x3000}
REG_DEFAULT == [r \in Regs |->
    CASE r = 0 -> 8192 [] r = 1 -> 12290 [] r = 2 -> 24580
      [] r = 3 -> 5247 [] r = 4 -> 0 [] r = 5 -> 12288]

\* REG_INIT = {0x2004, 0x3000, 0xF800, 0x147f, 0x0000, 0x3000}
REG_INIT == [r \in Regs |->
    CASE r = 0 -> 8196 [] r = 1 -> 12288 [] r = 2 -> 63488
      [] r = 3 -> 5247 [] r = 4 -> 0 [] r = 5 -> 12288]

----------------------------------------------------------------------------
(* 16-bit arithmetic of the C expressions *)

Pow2(k) == 2 ^ k

\* (x & y) truncated to `bits` low bits; x, y are C ints (two's complement,
\* negative allowed: \div and % floor, as an arithmetic shift does)
RECURSIVE BitAnd(_, _, _)
BitAnd(x, y, bits) ==
    IF bits = 0 THEN 0
    ELSE (x % 2) * (y % 2) + 2 * BitAnd(x \div 2, y \div 2, bits - 1)

\* (x | y) truncated to `bits` low bits
RECURSIVE BitOr(_, _, _)
BitOr(x, y, bits) ==
    IF bits = 0 THEN 0
    ELSE (IF (x % 2) + (y % 2) > 0 THEN 1 ELSE 0)
         + 2 * BitOr(x \div 2, y \div 2, bits - 1)

\* ~x on an int
BitNot(x) == (0 - x) - 1

And16(x, y) == BitAnd(x, y, WORD_BITS)
Or16(x, y) == BitOr(x, y, WORD_BITS)

\* variant: the bits under the mask are not cleared before the merge
NewValueKeepOld(oldvalue, newbits, newmask) ==
    Or16(oldvalue, And16(newbits, newmask))

\* uint16_t newvalue = (regbuf[cfg.reg] & ~cfg.mask) | (cfg.writeVal & cfg.mask);
NewValue(oldvalue, newbits, newmask) ==
    Or16(And16(oldvalue, BitNot(newmask)), And16(newbits, newmask))

----------------------------------------------------------------------------
(* Inputs *)

\* sample words: 0x8000, 0x00FF, 0xFFFF, 0x2004, 0x5A5A, 0x0000
SampleWords == <<32768, 255, 65535, 8196, 23130, 0>>
Vals == {SampleWords[i] : i \in 1 .. NumVals}

\* results of strtol() on the value argument of -m, -r, -w: the sample
\* words, the register indices 0, 2, 5 and the first values out of range
LVals == Vals \cup {0, 2, NUM_REGS - 1} \cup {0 - 1, NUM_REGS, 65536}

\* argv[argn] as seen by the strcmp chain; "?" is any other string
Options == {"-A", "-h", "-m", "-q", "-r", "-v", "-w",
            "-DMADAC", "-DMASPDIF", "-INIT", "?"}

\* return values of hid_write(dev, buf, 5)
SendRets == {0 - 1, REPORT_SIZE}
\* return values of hid_read(dev, buf, 5)
RecvRets == {0 - 1, 2, 3, 4}
\* first byte of an input report: 0x20, 0x21, 0x00
StatusBytes == {32, 33, 0}

\* register contents of the device when the program starts
HwProfiles == {REG_DEFAULT} \cup {[r \in Regs |-> v] : v \in Vals}

----------------------------------------------------------------------------
(* Configuration: struct cfg = {0, .mask=0xFFFF} *)

\* variant: the designated initializer .mask=0xFFFF left out
CfgInitZeroMask ==
    [verbose |-> FALSE, quiet |-> FALSE, cmdPrintAll |-> FALSE,
     cmdRead |-> FALSE, reg |-> 0, cmdWrite |-> FALSE,
     writeVal |-> 0, mask |-> 0, cmdInit |-> FALSE]

CfgInit == [verbose |-> FALSE, quiet |-> FALSE, cmdPrintAll |-> FALSE,
            cmdRead |-> FALSE, reg |-> 0, cmdWrite |-> FALSE,
            writeVal |-> 0, mask |-> 65535, cmdInit |-> FALSE]

NeedsValue(opt) == opt \in {"-m", "-r", "-w"}

\* variant: the upper limit of -r taken as NUM_REGS
ParseOptionRegOffByOne(c, opt, lval) ==
    CASE opt = "-A" -> [ok |-> TRUE, cfg |-> [c EXCEPT !.cmdPrintAll = TRUE]]
      [] opt = "-m" ->
            IF lval < 0 \/ lval > 65535 THEN [ok |-> FALSE, cfg |-> c]
            ELSE [ok |-> TRUE, cfg |-> [c EXCEPT !.mask = lval]]
      [] opt = "-q" -> [ok |-> TRUE, cfg |-> [c EXCEPT !.quiet = TRUE]]
      [] opt = "-r" ->
            IF lval < 0 \/ lval > NUM_REGS THEN [ok |-> FALSE, cfg |-> c]
            ELSE [ok |-> TRUE, cfg |-> [c EXCEPT !.reg = lval, !.cmdRead = TRUE]]
      [] opt = "-v" -> [ok |-> TRUE, cfg |-> [c EXCEPT !.verbose = TRUE]]
      [] opt = "-w" ->
            IF lval < 0 \/ lval > 65535 THEN [ok |-> FALSE, cfg |-> c]
            ELSE [ok |-> TRUE, cfg |-> [c EXCEPT !.writeVal = lval, !.cmdWrite = TRUE]]
      [] opt = "-DMADAC" ->
            [ok |-> TRUE, cfg |-> [c EXCEPT !.reg = 0, !.mask = 32768,
                                            !.writeVal = 0, !.cmdWrite = TRUE]]
      [] opt = "-DMASPDIF" ->
            [ok |-> TRUE, cfg |-> [c EXCEPT !.reg = 0, !.mask = 32768,
                                            !.writeVal = 32768, !.cmdWrite = TRUE]]
      [] opt = "-INIT" -> [ok |-> TRUE, cfg |-> [c EXCEPT !.cmdInit = TRUE]]
      [] OTHER -> [ok |-> FALSE, cfg |-> c]

\* one branch of the strcmp chain of parseArgumentsToConfig; lval is the
\* strtol() result of the following argument (ignored when none is taken).
\* Result: [ok, cfg]; ok = FALSE when err() is called.
ParseOption(c, opt, lval) ==
    CASE opt = "-A" -> [ok |-> TRUE, cfg |-> [c EXCEPT !.cmdPrintAll = TRUE]]
      [] opt = "-m" ->
            IF lval < 0 \/ lval > 65535 THEN [ok |-> FALSE, cfg |-> c]
            ELSE [ok |-> TRUE, cfg |-> [c EXCEPT !.mask = lval]]
      [] opt = "-q" -> [ok |-> TRUE, cfg |-> [c EXCEPT !.quiet = TRUE]]
      [] opt = "-r" ->
            IF lval < 0 \/ lval > NUM_REGS - 1 THEN [ok |-> FALSE, cfg |-> c]
            ELSE [ok |-> TRUE, cfg |-> [c EXCEPT !.reg = lval, !.cmdRead = TRUE]]
      [] opt = "-v" -> [ok |-> TRUE, cfg |-> [c EXCEPT !.verbose = TRUE]]
      [] opt = "-w" ->
            IF lval < 0 \/ lval > 65535 THEN [ok |-> FALSE, cfg |-> c]
            ELSE [ok |-> TRUE, cfg |-> [c EXCEPT !.writeVal = lval, !.cmdWrite = TRUE]]
      [] opt = "-DMADAC" ->
            [ok |-> TRUE, cfg |-> [c EXCEPT !.reg = 0, !.mask = 32768,
                                            !.writeVal = 0, !.cmdWrite = TRUE]]
      [] opt = "-DMASPDIF" ->
            [ok |-> TRUE, cfg |-> [c EXCEPT !.reg = 0, !.mask = 32768,
                                            !.writeVal = 32768, !.cmdWrite = TRUE]]
      [] opt = "-INIT" -> [ok |-> TRUE, cfg |-> [c EXCEPT !.cmdInit = TRUE]]
      [] OTHER -> [ok |-> FALSE, cfg |-> c]

----------------------------------------------------------------------------
(* HID frames *)

\* variant: the read request carries the write opcode
ReadFrameWriteOpcode(regnum) == <<0, 32, 0, 0, regnum>>

\* buf[5] of cm6206_read before hid_write (1-based: buf[0] is ReadFrame[1])
ReadFrame(regnum) == <<0, 48, 0, 0, regnum>>

\* variant: DATAL and DATAH exchanged
WriteFrameSwapped(regnum, value) ==
    <<0, 32, (value \div Pow2(8)) % 256, BitAnd(value, 255, 8), regnum>>

\* buf[5] of cm6206_write
WriteFrame(regnum, value) ==
    <<0, 32, BitAnd(value, 255, 8), (value \div Pow2(8)) % 256, regnum>>

\* input report of the device for a register holding v
DevReport(status, v) == <<status, v % 256, v \div 256, 0, 0>>

\* buf after hid_read returned r: the first r bytes come from the report
BufAfterRead(req, report, r) ==
    [i \in 1 .. REPORT_SIZE |-> IF i <= r THEN report[i] ELSE req[i]]

\* the guard `buf[0] & 0xe0 != 0x20`: != binds tighter than &
MarkerGuard(b0) == BitAnd(b0, (IF 224 # 32 THEN 1 ELSE 0), 8) # 0

\* variant: the value decoded big-endian
DecodeValueSwapped(b) == Or16((b[2] * 256) % Pow2(WORD_BITS), b[3])

\* *value = (((uint16_t)buf[2]) << 8) | buf[1];
DecodeValue(b) == Or16((b[3] * 256) % Pow2(WORD_BITS), b[2])

\* variant: only a receive of fewer than 3 bytes is refused
ReadRetAtLeast3(sret, rret, b) ==
    IF sret # REPORT_SIZE THEN 0 - 1
    ELSE IF rret < 3 THEN 0 - 2
    ELSE IF MarkerGuard(b[1]) THEN 0 - 3
    ELSE 0

\* return value of cm6206_read, given what the transport returned
ReadRet(sret, rret, b) ==
    IF sret # REPORT_SIZE THEN 0 - 1
    ELSE IF rret # 3 THEN 0 - 2
    ELSE IF MarkerGuard(b[1]) THEN 0 - 3
    ELSE 0

\* return value of cm6206_write
WriteRet(sret) == IF sret # REPORT_SIZE THEN 0 - 1 ELSE 0

\* variant: only the read-short and framing errors abort the batch
ReadFailedIgnoreSend(ret) == ret < 0 - 1

\* `if (cm6206_read(...) < 0) err(...)` of readAllRegisters
ReadFailed(ret) == ret < 0

\* variant: the result of cm6206_write is not tested
WriteFailedNever(ret) == FALSE

\* `if (cm6206_write(...) < 0) err(...)` of main
WriteFailed(ret) == ret < 0

\* the device register addressed by a write frame takes the frame's value
HwAfterWrite(h, req) == [h EXCEPT ![req[5]] = req[4] * 256 + req[3]]

Event(op, reg, val, ret) == [op |-> op, reg |-> reg, val |-> val, ret |-> ret]

----------------------------------------------------------------------------
(* Printout of registers *)

\* sprintf(sbuf, "%u", v): the decimal digits of v, most significant first
RECURSIVE ToDecimal(_)
ToDecimal(v) ==
    LET d == <<"0", "1", "2", "3", "4", "5", "6", "7", "8", "9">>[(v % 10) + 1]
    IN IF v < 10 THEN <<d>> ELSE Append(ToDecimal(v \div 10), d)

\* the two lines of print_reg_header; hilight is TRUE for ANSI_BOLD
print_reg_header(regnum, regval) ==
    [hilight |-> ~(regval = REG_DEFAULT[regnum]), regnum |-> regnum,
     raw |-> regval, reset |-> REG_DEFAULT[regnum]]

\* variant: the line is classified by the whole register, not by its bit
print_reg_bit_specialWholeReg(regnum, regval, bit, label, valuetxt) ==
    [hilight |-> ~(regval = REG_DEFAULT[regnum]), hi |-> bit, lo |-> bit,
     label |-> label, text |-> valuetxt]

\* the line "[bit] label  valuetxt" of print_reg_bit_special
print_reg_bit_special(regnum, regval, bit, label, valuetxt) ==
    LET isdefault == BitAnd(regval \div Pow2(bit), 1, WORD_BITS)
                       = BitAnd(REG_DEFAULT[regnum] \div Pow2(bit), 1, WORD_BITS)
    IN [hilight |-> ~isdefault, hi |-> bit, lo |-> bit,
        label |-> label, text |-> valuetxt]

\* strbuf of print_reg_bit_txt: the state text, and the legend when verbose
print_reg_bit_txt(regnum, regval, bit, label, ontxt, offtxt) ==
    LET statetxt == IF BitAnd(regval \div Pow2(bit), 1, WORD_BITS) # 0
                    THEN ontxt ELSE offtxt
        strbuf == [txt |-> statetxt,
                   legend |-> IF cfg.verbose THEN <<<<0, offtxt>>, <<1, ontxt>>>>
                              ELSE <<>>]
    IN print_reg_bit_special(regnum, regval, bit, label, strbuf)

print_reg_bit_def(regnum, regval, bit, label) ==
    print_reg_bit_txt(regnum, regval, bit, label, "Yes", "No")

\* the line "[hi:lo] label  valuetxt" of print_reg_bit_range
print_reg_bit_range(regnum, regval, firstbit, numbits, label, valuetxt) ==
    LET mask == 65535 \div Pow2(WORD_BITS - numbits)
        isdefault == BitAnd(regval \div Pow2(firstbit), mask, WORD_BITS)
                       = BitAnd(REG_DEFAULT[regnum] \div Pow2(firstbit), mask, WORD_BITS)
    IN [hilight |-> ~isdefault, hi |-> firstbit + numbits - 1, lo |-> firstbit,
        label |-> label, text |-> valuetxt]

\* const char *valuetxt = NULL;
NullTxt == "NULL"

\* variant: the scan keeps the first matching label
RECURSIVE ScanLabelsFirst(_, _, _, _)
ScanLabelsFirst(labels, k, field, valuetxt) ==
    IF labels[k][1] >= 0
    THEN ScanLabelsFirst(labels, k + 1, field,
                         IF labels[k][1] = field /\ valuetxt = NullTxt
                         THEN labels[k][2] ELSE valuetxt)
    ELSE [n |-> k, valuetxt |-> valuetxt]

\* the first while loop of print_reg_bit_range_label, from index k on:
\* every matching entry assigns valuetxt; the loop ends at the first entry
\* with a negative val
RECURSIVE ScanLabels(_, _, _, _)
ScanLabels(labels, k, field, valuetxt) ==
    IF labels[k][1] >= 0
    THEN ScanLabels(labels, k + 1, field,
                    IF labels[k][1] = field THEN labels[k][2] ELSE valuetxt)
    ELSE [n |-> k, valuetxt |-> valuetxt]

print_reg_bit_range_label(regnum, regval, firstbit, numbits, label, labels) ==
    LET mask == 65535 \div Pow2(WORD_BITS - numbits)
        field == BitAnd(regval \div Pow2(firstbit), mask, WORD_BITS)
        scan == ScanLabels(labels, 1, field, NullTxt)
        valuetxt == IF scan.valuetxt = NullTxt THEN labels[scan.n][2]
                    ELSE scan.valuetxt
        strbuf == [txt |-> valuetxt,
                   legend |-> IF cfg.verbose THEN SubSeq(labels, 1, scan.n - 1)
                              ELSE <<>>]
    IN print_reg_bit_range(regnum, regval, firstbit, numbits, label, strbuf)

\* ValLabel SPDIF_OUT_HZ[]
SPDIF_OUT_HZ ==
    <<<<0, "44.1 kHz">>,
      <<2, "48 kHz">>,
      <<3, "32 kHz">>,
      <<6, "96 kHz">>,
      <<0 - 1, "Reserved">>>>

\* ValLabel HEADPHONE_SOURCES[]
HEADPHONE_SOURCES ==
    <<<<0, "Side">>,
      <<1, "Rear">>,
      <<2, "Center/Subwoofer">>,
      <<3, "Front">>,
      <<0 - 1, "<Reserved>">>>>

\* ValLabel MCU_CLK_FREQS[]
MCU_CLK_FREQS ==
    <<<<0, "1.5 MHz">>,
      <<1, "3 MHz">>,
      <<0 - 1, "<Reserved>">>>>

\* ValLabel SPDIF_IN_HZ[]
SPDIF_IN_HZ ==
    <<<<0, "44.1 kHz">>,
      <<2, "48 kHz">>,
      <<3, "32 kHz">>,
      <<0 - 1, "Reserved">>>>

\* ValLabel SPDIF_OUT_CHANNELS[]
SPDIF_OUT_CHANNELS ==
    <<<<0, "Front">>,
      <<1, "Side">>,
      <<2, "Center">>,
      <<3, "Rear">>,
      <<0 - 1, "<Reserved>">>>>

\* ValLabel AD_FILTER_SOURCES[]
AD_FILTER_SOURCES ==
    <<<<0, "Normal">>,
      <<4, "Front">>,
      <<5, "Side">>,
      <<6, "Center">>,
      <<7, "Rear">>,
      <<0 - 1, "<Reserved>">>>>

print_cm6202_reg0(val) ==
    <<print_reg_header(0, val),
      print_reg_bit_txt(0, val, 15, "DMA Master", "SPDIF Out", "DAC"),
      print_reg_bit_range_label(0, val, 12, 3, "SPDIF Out sample rate", SPDIF_OUT_HZ),
      print_reg_bit_range(0, val, 4, 8, "Category code",
          ToDecimal(BitAnd(val \div Pow2(4), 255, WORD_BITS))),
      print_reg_bit_txt(0, val, 3, "Emphasis", "CD_Type", "None"),
      print_reg_bit_txt(0, val, 2, "Copyright", "Not Asserted", "Asserted"),
      print_reg_bit_txt(0, val, 1, "Non-audio", "non-PCM (e.g. AC3)", "PCM"),
      print_reg_bit_txt(0, val, 0, "Professional/Consumer", "Professional", "Consumer")>>

print_cm6202_reg1(val) ==
    <<print_reg_header(1, val),
      print_reg_bit_special(1, val, 15, "<Reserved>", ""),
      print_reg_bit_txt(1, val, 14, "SEL Clk (test)", "22.58 MHz", "24.576 MHz"),
      print_reg_bit_def(1, val, 13, "PLL binary search Enable"),
      print_reg_bit_def(1, val, 12, "Soft Mute Enable"),
      print_reg_bit_def(1, val, 11, "GPIO4 Out Status"),
      print_reg_bit_def(1, val, 10, "GPIO4 Out Enable"),
      print_reg_bit_def(1, val, 9, "GPIO3 Out Status"),
      print_reg_bit_def(1, val, 8, "GPIO3 Out Enable"),
      print_reg_bit_def(1, val, 7, "GPIO2 Out Status"),
      print_reg_bit_def(1, val, 6, "GPIO2 Out Enable"),
      print_reg_bit_def(1, val, 5, "GPIO1 Out Status"),
      print_reg_bit_def(1, val, 4, "GPIO1 Out Enable"),
      print_reg_bit_def(1, val, 3, "SPDIF Out Valid"),
      print_reg_bit_def(1, val, 2, "SPDIF Loop-back Enable"),
      print_reg_bit_def(1, val, 1, "SPDIF Out Disable"),
      print_reg_bit_def(1, val, 0, "SPDIF In Mix Enable")>>

print_cm6202_reg2(val) ==
    <<print_reg_header(2, val),
      print_reg_bit_def(2, val, 15, "Driver On"),
      print_reg_bit_range_label(2, val, 13, 2, "Headphone Source channels", HEADPHONE_SOURCES),
      print_reg_bit_def(2, val, 12, "Mute Headphone Right"),
      print_reg_bit_def(2, val, 11, "Mute Headphone Left"),
      print_reg_bit_def(2, val, 10, "Mute Rear Surround Right"),
      print_reg_bit_def(2, val, 9, "Mute Rear Surround Left"),
      print_reg_bit_def(2, val, 8, "Mute Side Surround Right"),
      print_reg_bit_def(2, val, 7, "Mute Side Surround Left"),
      print_reg_bit_def(2, val, 6, "Mute Subwoofer"),
      print_reg_bit_def(2, val, 5, "Mute Center"),
      print_reg_bit_def(2, val, 4, "Mute Front Right"),
      print_reg_bit_def(2, val, 3, "Mute Front Left"),
      print_reg_bit_def(2, val, 2, "BTL mode enable"),
      print_reg_bit_range_label(2, val, 0, 2, "MCU Clock Frequency", MCU_CLK_FREQS)>>

print_cm6202_reg3(val) ==
    <<print_reg_header(3, val),
      print_reg_bit_range(3, val, 14, 2, "<Reserved>", ""),
      print_reg_bit_range(3, val, 11, 2, "Sensitivity to FLY tuner volume",
          ToDecimal(BitAnd(val \div Pow2(11), 7, WORD_BITS))),
      print_reg_bit_txt(3, val, 10, "Microphone bias voltage", "2.25 V", "4.5 V"),
      print_reg_bit_txt(3, val, 9, "Mix MIC/Line In to", "All 8 Channels", "Front Out Only"),
      print_reg_bit_range_label(3, val, 7, 2, "SPDIF In sample rate", SPDIF_IN_HZ),
      print_reg_bit_txt(3, val, 6, "Package size", "48 pins", "100 pins"),
      print_reg_bit_def(3, val, 5, "Front Out Enable"),
      print_reg_bit_def(3, val, 4, "Rear Out Enable"),
      print_reg_bit_def(3, val, 3, "Center Out Enable"),
      print_reg_bit_def(3, val, 2, "Line Out Enable"),
      print_reg_bit_def(3, val, 1, "Headphone Out Enable"),
      print_reg_bit_def(3, val, 0, "SPDIF In can be recorded")>>

print_cm6202_reg4(val) ==
    <<print_reg_header(4, val),
      print_reg_bit_def(4, val, 15, "GPIO12 Out Status"),
      print_reg_bit_def(4, val, 14, "GPIO12 Out Enable"),
      print_reg_bit_def(4, val, 13, "GPIO11 Out Status"),
      print_reg_bit_def(4, val, 12, "GPIO11 Out Enable"),
      print_reg_bit_def(4, val, 11, "GPIO10 Out Status"),
      print_reg_bit_def(4, val, 10, "GPIO10 Out Enable"),
      print_reg_bit_def(4, val, 9, "GPIO9 Out Status"),
      print_reg_bit_def(4, val, 8, "GPIO9 Out Enable"),
      print_reg_bit_def(4, val, 7, "GPIO8 Out Status"),
      print_reg_bit_def(4, val, 6, "GPIO8 Out Enable"),
      print_reg_bit_def(4, val, 5, "GPIO7 Out Status"),
      print_reg_bit_def(4, val, 4, "GPIO7 Out Enable"),
      print_reg_bit_def(4, val, 3, "GPIO6 Out Status"),
      print_reg_bit_def(4, val, 2, "GPIO6 Out Enable"),
      print_reg_bit_def(4, val, 1, "GPIO5 Out Enable"),
      print_reg_bit_def(4, val, 0, "GPIO5 Out Status")>>

print_cm6202_reg5(val) ==
    <<print_reg_header(5, val),
      print_reg_bit_range(5, val, 14, 2, "<Reserved>", ""),
      print_reg_bit_def(5, val, 13, "DAC Not Reset"),
      print_reg_bit_def(5, val, 12, "ADC Not Reset"),
      print_reg_bit_def(5, val, 11, "ADC to SPDIF Out"),
      print_reg_bit_range_label(5, val, 9, 2, "SPDIF Out select", SPDIF_OUT_CHANNELS),
      print_reg_bit_txt(5, val, 8, "USB/CODEC Mode", "CODEC", "USB"),
      print_reg_bit_def(5, val, 7, "DAC high pass filter"),
      print_reg_bit_def(5, val, 6, "Loopback ADC to Rear DAC"),
      print_reg_bit_def(5, val, 5, "Loopback ADC to Center DAC"),
      print_reg_bit_def(5, val, 4, "Loopback ADC to Side DAC"),
      print_reg_bit_def(5, val, 3, "Loopback ADC to Front DAC"),
      print_reg_bit_range_label(5, val, 0, 3, "Input source to AD digital filter", AD_FILTER_SOURCES)>>

\* the printout of register r, as main calls print_cm6202_reg0 .. reg5
PrintReg(r, val) ==
    CASE r = 0 -> print_cm6202_reg0(val)
      [] r = 1 -> print_cm6202_reg1(val)
      [] r = 2 -> print_cm6202_reg2(val)
      [] r = 3 -> print_cm6202_reg3(val)
      [] r = 4 -> print_cm6202_reg4(val)
      [] r = 5 -> print_cm6202_reg5(val)

----------------------------------------------------------------------------
(* State after construction: globals regbuf = {0}, cfg = {0, .mask=0xFFFF} *)

Init ==
    /\ pc = "parse"
    /\ argsLeft \in 0 .. (MaxArgc - 1)
    /\ opts = {}
    /\ arg = <<>>
    /\ call = <<>>
    /\ cfg = CfgInit
    /\ hw \in HwProfiles
    /\ regbuf = [r \in Regs |-> 0]
    /\ n = 0
    /\ sent = <<>>
    /\ rlen = 0
    /\ rbuf = <<>>
    /\ log = <<>>
    /\ exitStatus = 0 - 1

Fail ==
    /\ pc' = "exit"
    /\ exitStatus' = EXIT_FAILURE

----------------------------------------------------------------------------
(* parseArgumentsToConfig: one iteration of the while loop.              *)
(* argsLeft is argc - argn, the number of arguments not yet consumed;     *)
(* arg is the option of the last iteration with the strtol() result of   *)
(* its value argument when one was converted.                            *)

ParseArg ==
    /\ pc = "parse"
    /\ argsLeft > 0
    /\ \E opt \in Options :
         IF opt = "-h"
         THEN /\ pc' = "exit"
              /\ exitStatus' = 0
              /\ arg' = <<opt>>
              /\ UNCHANGED <<argsLeft, opts, cfg>>
         ELSE IF NeedsValue(opt) /\ argsLeft - 1 < 1
         THEN /\ Fail
              /\ arg' = <<opt>>
              /\ UNCHANGED <<argsLeft, opts, cfg>>
         ELSE \E lval \in (IF NeedsValue(opt) THEN LVals ELSE {0}) :
                LET res == ParseOption(cfg, opt, lval) IN
                /\ arg' = (IF NeedsValue(opt) THEN <<opt, lval>> ELSE <<opt>>)
                /\ IF res.ok
                   THEN /\ cfg' = res.cfg
                        /\ opts' = opts \cup {opt}
                        /\ argsLeft' = (IF NeedsValue(opt) THEN argsLeft - 2
                                        ELSE argsLeft - 1)
                        /\ UNCHANGED <<pc, exitStatus>>
                   ELSE /\ Fail
                        /\ UNCHANGED <<argsLeft, opts, cfg>>
    /\ UNCHANGED <<call, hw, regbuf, n, sent, rlen, rbuf, log>>

\* while(argn < argc) is false: parseArgumentsToConfig returns to main and
\* its locals are gone
ParseDone ==
    /\ pc = "parse"
    /\ argsLeft <= 0
    /\ pc' = "open"
    /\ arg' = <<>>
    /\ UNCHANGED <<argsLeft, opts, call, cfg, hw, regbuf, n, sent, rlen, rbuf, log, exitStatus>>

----------------------------------------------------------------------------
(* main *)

\* main: `readAllRegisters(hid_dev)` follows hid_open / printUSBDevices
AfterOpen == "startRead"

\* variant: no re-read after the -INIT writes
AfterInitWritesNoRefresh == "write"

\* main: `readAllRegisters(hid_dev)` follows the loop of -INIT writes
AfterInitWrites == "initRead"

\* variant: no refresh after the masked write
AfterMaskedWriteNoRefresh == "cmdRead"

\* main: `readAllRegisters(hid_dev);  // Refresh` follows the masked write
AfterMaskedWrite == "writeRead"

\* hid_open, then printUSBDevices unless quiet
HidOpen ==
    /\ pc = "open"
    /\ \E opened \in BOOLEAN :
         IF opened
         THEN /\ pc' = AfterOpen
              /\ log' = (IF cfg.quiet THEN log
                         ELSE Append(log, Event("devices", 0, 0, 0)))
              /\ UNCHANGED exitStatus
         ELSE /\ Fail
              /\ UNCHANGED log
    /\ n' = 0
    /\ UNCHANGED <<argsLeft, opts, arg, call, cfg, hw, regbuf, sent, rlen, rbuf>>

\* where main continues after the readAllRegisters call made at `phase`
AfterReadAll(phase) ==
    CASE phase = "startRead" -> "init"
      [] phase = "initRead" -> "write"
      [] phase = "writeRead" -> "cmdRead"

\* cm6206_read(hid_dev, n, &regbuf[n]) when hid_write returns sret, hid_read
\* returns rret and the input report starts with `status`
ReadStep(sret, rret, status) ==
    LET req == ReadFrame(n)
        b   == BufAfterRead(req, DevReport(status, hw[n]), rret)
        ret == ReadRet(sret, rret, b)
    IN
    /\ sent' = req
    /\ rlen' = (IF sret = REPORT_SIZE THEN rret ELSE 0)
    /\ rbuf' = (IF sret = REPORT_SIZE THEN b ELSE req)
    /\ IF ReadFailed(ret)
       THEN /\ Fail
            /\ log' = Append(log, Event("read", n, 0, ret))
            /\ UNCHANGED <<regbuf, n>>
       ELSE /\ regbuf' = [regbuf EXCEPT ![n] = DecodeValue(b)]
            /\ log' = Append(log, Event("read", n, DecodeValue(b), ret))
            /\ n' = (IF n + 1 < NUM_REGS THEN n + 1 ELSE 0)
            /\ pc' = (IF n + 1 < NUM_REGS THEN pc ELSE AfterReadAll(pc))
            /\ UNCHANGED exitStatus

\* readAllRegisters: one iteration of the for loop, i.e. one cm6206_read.
\* hid_read is not called after a failed hid_write, and a hid_read that
\* returns no byte leaves buf as it was.
ReadReg ==
    /\ pc \in {"startRead", "initRead", "writeRead"}
    /\ n < NUM_REGS
    /\ \E sret \in SendRets :
         IF sret # REPORT_SIZE
         THEN ReadStep(sret, 0, 0)
         ELSE \E rret \in RecvRets :
                IF rret < 1
                THEN ReadStep(sret, rret, 0)
                ELSE \E status \in StatusBytes : ReadStep(sret, rret, status)
    /\ UNCHANGED <<argsLeft, opts, arg, call, cfg, hw>>

\* if(cfg.cmdInit): the message, before the loop of writes
InitBegin ==
    /\ pc = "init"
    /\ IF cfg.cmdInit
       THEN /\ pc' = "initWrite"
            /\ log' = (IF cfg.quiet THEN log
                       ELSE Append(log, Event("msgInit", 0, 0, 0)))
       ELSE /\ pc' = "write"
            /\ UNCHANGED log
    /\ n' = 0
    /\ UNCHANGED <<argsLeft, opts, arg, call, cfg, hw, regbuf, sent, rlen, rbuf, exitStatus>>

\* one iteration of the -INIT loop: cm6206_write(hid_dev, n, REG_INIT[n])
InitWrite ==
    /\ pc = "initWrite"
    /\ n < NUM_REGS
    /\ \E sret \in SendRets :
         LET req == WriteFrame(n, REG_INIT[n])
             ret == WriteRet(sret)
         IN
         /\ sent' = req
         /\ log' = Append(log, Event("write", n, REG_INIT[n], ret))
         /\ IF WriteFailed(ret)
            THEN /\ Fail
                 /\ UNCHANGED <<hw, n>>
            ELSE /\ hw' = HwAfterWrite(hw, req)
                 /\ n' = (IF n + 1 < NUM_REGS THEN n + 1 ELSE 0)
                 /\ pc' = (IF n + 1 < NUM_REGS THEN pc ELSE AfterInitWrites)
                 /\ UNCHANGED exitStatus
    /\ UNCHANGED <<argsLeft, opts, arg, call, cfg, regbuf, rlen, rbuf>>

\* if(cfg.cmdWrite): masked write of one register
MaskedWrite ==
    /\ pc = "write"
    /\ IF cfg.cmdWrite
       THEN \E sret \in SendRets :
              LET newvalue == NewValue(regbuf[cfg.reg], cfg.writeVal, cfg.mask)
                  req == WriteFrame(cfg.reg, newvalue)
                  ret == WriteRet(sret)
                  msg == IF cfg.quiet THEN <<>>
                         ELSE <<Event("msgWrite", cfg.reg, cfg.writeVal, 0)>>
              IN
              /\ sent' = req
              /\ log' = log \o msg \o <<Event("write", cfg.reg, newvalue, ret)>>
              /\ IF WriteFailed(ret)
                 THEN /\ Fail
                      /\ UNCHANGED hw
                 ELSE /\ hw' = HwAfterWrite(hw, req)
                      /\ pc' = AfterMaskedWrite
                      /\ UNCHANGED exitStatus
       ELSE /\ pc' = "cmdRead"
            /\ UNCHANGED <<sent, log, hw, exitStatus>>
    /\ n' = 0
    /\ UNCHANGED <<argsLeft, opts, arg, call, cfg, regbuf, rlen, rbuf>>

\* variant: the register value printed whole
OutValueUnmasked(regval, mask) == regval

\* printf("%u\n", regbuf[cfg.reg] & cfg.mask)
OutValue(regval, mask) == And16(regval, mask)

\* if(cfg.cmdRead): printf("%u\n", (regbuf[cfg.reg] & cfg.mask))
CmdRead ==
    /\ pc = "cmdRead"
    /\ pc' = "printAll"
    /\ IF cfg.cmdRead
       THEN LET msg == IF cfg.quiet THEN <<>>
                       ELSE <<Event("msgRead", cfg.reg, regbuf[cfg.reg], 0)>>
            IN log' = log \o msg
                        \o <<Event("out", cfg.reg, OutValue(regbuf[cfg.reg], cfg.mask), 0)>>
       ELSE UNCHANGED log
    /\ UNCHANGED <<argsLeft, opts, arg, call, cfg, hw, regbuf, n, sent, rlen, rbuf, exitStatus>>

\* if(cfg.cmdPrintAll): print_cm6202_reg0(regbuf[0]) ... print_cm6202_reg5(regbuf[5])
CmdPrintAll ==
    /\ pc = "printAll"
    /\ pc' = "close"
    /\ IF cfg.cmdPrintAll
       THEN log' = log \o [r \in 1 .. NUM_REGS |->
                              Event("decode", r - 1, regbuf[r - 1],
                                    PrintReg(r - 1, regbuf[r - 1]))]
       ELSE UNCHANGED log
    /\ UNCHANGED <<argsLeft, opts, arg, call, cfg, hw, regbuf, n, sent, rlen, rbuf, exitStatus>>

\* hid_close; hid_exit; return 0
Close ==
    /\ pc = "close"
    /\ pc' = "exit"
    /\ exitStatus' = 0
    /\ UNCHANGED <<argsLeft, opts, arg, call, cfg, hw, regbuf, n, sent, rlen, rbuf, log>>

Next ==
    \/ ParseArg
    \/ ParseDone
    \/ HidOpen
    \/ ReadReg
    \/ InitBegin
    \/ InitWrite
    \/ MaskedWrite
    \/ CmdRead
    \/ CmdPrintAll
    \/ Close

Spec == Init /\ [][Next]_vars

----------------------------------------------------------------------------
(* The printout on its own: the runs `-q -A` and `-q -v -A` at the point  *)
(* where all six registers have been read, over more register contents.   *)

\* v with bit b inverted
FlipBit(v, b) ==
    IF BitAnd(v \div Pow2(b), 1, WORD_BITS) = 1 THEN v - Pow2(b) ELSE v + Pow2(b)

\* register contents shown to the printout: a register file as read at
\* startup or as written by -INIT, as it is or with bit b inverted in the
\* registers of rs
DecodeBases == HwProfiles \cup {REG_INIT}

DecodeFlipped == {Regs, {0, 2, 4}}

DecodeHw(base, b, rs) ==
    [r \in Regs |-> IF r \in rs THEN FlipBit(base[r], b) ELSE base[r]]

DecodeOpts == {{"-A", "-q"}, {"-A", "-q", "-v"}}

DecodeInit ==
    /\ pc = "printAll"
    /\ argsLeft = 0
    /\ opts \in DecodeOpts
    /\ arg = <<>>
    /\ call = <<>>
    /\ cfg = [CfgInit EXCEPT !.cmdPrintAll = TRUE, !.quiet = TRUE,
                             !.verbose = ("-v" \in opts)]
    /\ \E base \in DecodeBases :
         \/ hw = base
         \/ \E b \in 0 .. (WORD_BITS - 1) : \E rs \in DecodeFlipped :
               hw = DecodeHw(base, b, rs)
    /\ regbuf = hw
    /\ n = 0
    /\ sent = ReadFrame(NUM_REGS - 1)
    /\ rlen = 3
    /\ rbuf = BufAfterRead(sent, DevReport(32, hw[NUM_REGS - 1]), 3)
    /\ log = [r \in 1 .. NUM_REGS |-> Event("read", r - 1, hw[r - 1], 0)]
    /\ exitStatus = 0 - 1

DecodeNext ==
    \/ CmdPrintAll
    \/ Close

SpecDecode == DecodeInit /\ [][DecodeNext]_vars

----------------------------------------------------------------------------
(* print_reg_bit_range_label on its own, over label tables that may       *)
(* declare a value more than once.                                         *)

\* longest label table, the terminating entry not counted
MaxLabels == 3

LabelNames == <<"L1", "L2", "L3", "L4", "L5">>

\* struct ValLabel tables: k entries and the terminating entry {-1, ...}
LabelTables ==
    UNION {{[i \in 1 .. (k + 1) |->
                IF i <= k THEN <<vs[i], LabelNames[i]>> ELSE <<0 - 1, "fallback">>]
              : vs \in [1 .. k -> 0 .. 3]}
           : k \in 0 .. MaxLabels}

LabelRegVals == {0, 1, 2, 3, 16384, 32768, 49152, 65535}

LabelInit ==
    /\ pc = "label"
    /\ call \in [regnum : {0}, regval : LabelRegVals, firstbit : {0, 14},
                 numbits : {2}, labels : LabelTables, out : {<<>>}]
    /\ cfg \in {CfgInit, [CfgInit EXCEPT !.verbose = TRUE]}
    /\ argsLeft = 0
    /\ opts = {}
    /\ arg = <<>>
    /\ hw = REG_DEFAULT
    /\ regbuf = [r \in Regs |-> 0]
    /\ n = 0
    /\ sent = <<>>
    /\ rlen = 0
    /\ rbuf = <<>>
    /\ log = <<>>
    /\ exitStatus = 0 - 1

\* one call of print_reg_bit_range_label; out is the line it prints
LabelCall ==
    /\ pc = "label"
    /\ pc' = "labelled"
    /\ call' = [call EXCEPT !.out =
                  <<print_reg_bit_range_label(call.regnum, call.regval, call.firstbit,
                                              call.numbits, "label", call.labels)>>]
    /\ UNCHANGED <<argsLeft, opts, arg, cfg, hw, regbuf, n, sent, rlen, rbuf, log, exitStatus>>

LabelNext == LabelCall

SpecLabel == LabelInit /\ [][LabelNext]_vars

----------------------------------------------------------------------------
(* Vocabulary of the properties *)

\* bit i of a 16-bit word
Bit(x, i) == (x \div Pow2(i)) % 2

BitIdx == 0 .. (WORD_BITS - 1)

\* the last event of the log, the transaction or output just performed
HasLast == Len(log) > 0
LastEvent == log[Len(log)]

\* the 16-bit value carried by the data bytes of the frame last sent
SentValue == sent[4] * 256 + sent[3]

\* the state right after the masked write transaction of main was sent
AtMaskedWrite == pc = "writeRead" /\ n = 0 /\ HasLast /\ LastEvent.op = "write"

MaskGiven == opts \cap {"-m", "-DMADAC", "-DMASPDIF"} # {}

----------------------------------------------------------------------------
(* C1 *)

\* C1: the value a masked write puts into the write frame takes every bit
\* selected by the mask from the write value and every other bit from the
\* register buffer's current value of the target register:
\* (result & mask) == (writeVal & mask), (result & ~mask) == (current & ~mask).
C1_MaskedWriteValue ==
    AtMaskedWrite =>
        /\ sent[5] = cfg.reg
        /\ \A i \in BitIdx :
             Bit(SentValue, i) = (IF Bit(cfg.mask, i) = 1
                                  THEN Bit(cfg.writeVal, i)
                                  ELSE Bit(regbuf[cfg.reg], i))

\* a write under a partial mask that keeps 15 bits of the current value
C1_Witness ==
    /\ AtMaskedWrite
    /\ cfg.mask = 32768
    /\ cfg.writeVal = 0
    /\ regbuf[cfg.reg] = 65535
    /\ SentValue = 32767

(* C2 *)

\* C2: the mask is 0xFFFF as long as no option has specified one (-m, or a
\* shortcut that stands for -m 0x8000), and under mask 0xFFFF the value
\* written is the write value itself whatever the register held.
C2_DefaultMaskWritesValue ==
    /\ (~MaskGiven) => cfg.mask = 65535
    /\ (AtMaskedWrite /\ cfg.mask = 65535) => SentValue = cfg.writeVal

\* -w without -m replaces a register that held another value
C2_Witness ==
    /\ AtMaskedWrite
    /\ ~MaskGiven
    /\ cfg.writeVal = 255
    /\ regbuf[cfg.reg] = 32768
    /\ SentValue = 255

(* C3 *)

\* C3: the frame of a write transaction is 5 bytes: 0x00, 0x20, the low
\* byte of the value, the high byte of the value, the register index.
C3_WriteFrame ==
    (HasLast /\ LastEvent.op = "write") =>
        /\ Len(sent) = 5
        /\ sent[1] = 0
        /\ sent[2] = 32
        /\ sent[3] \in 0 .. 255
        /\ sent[4] \in 0 .. 255
        /\ sent[3] + 256 * sent[4] = LastEvent.val
        /\ sent[5] = LastEvent.reg

\* a write of 0xF800 to register 2 (low byte 0x00, high byte 0xF8)
C3_Witness ==
    /\ HasLast
    /\ LastEvent = Event("write", 2, 63488, 0)
    /\ sent = <<0, 32, 0, 248, 2>>

(* C4 *)

\* C4: the frame of a read transaction is 5 bytes: 0x00, 0x30, 0x00, 0x00,
\* the register index; against the write frame of the same index only the
\* opcode byte and the data bytes can differ.
C4_ReadFrame ==
    (HasLast /\ LastEvent.op = "read") =>
        /\ sent = <<0, 48, 0, 0, LastEvent.reg>>
        /\ \A v \in Vals :
             LET w == WriteFrame(LastEvent.reg, v) IN
             /\ Len(w) = Len(sent)
             /\ w[1] = sent[1]
             /\ w[5] = sent[5]
             /\ w[2] # sent[2]

\* a read of register 4
C4_Witness ==
    /\ HasLast
    /\ LastEvent.op = "read"
    /\ LastEvent.reg = 4
    /\ sent[5] = 4

(* C5 *)

\* C5: a reply that carries the register value v as (v & 0xFF, v >> 8) in
\* its bytes 1 and 2 is decoded to v: an accepted read stores
\* (byte[2] << 8) | byte[1], which is the value the device holds.
C5_DecodeRoundTrip ==
    (HasLast /\ LastEvent.op = "read" /\ LastEvent.ret = 0) =>
        /\ rbuf[2] = hw[LastEvent.reg] % 256
        /\ rbuf[3] = hw[LastEvent.reg] \div 256
        /\ regbuf[LastEvent.reg] = rbuf[3] * 256 + rbuf[2]
        /\ regbuf[LastEvent.reg] = hw[LastEvent.reg]
        /\ LastEvent.val = hw[LastEvent.reg]

\* a value whose two bytes differ (0x2004) comes back intact
C5_Witness ==
    /\ HasLast
    /\ LastEvent.op = "read"
    /\ LastEvent.ret = 0
    /\ hw[LastEvent.reg] = 8196
    /\ regbuf[LastEvent.reg] = 8196
    /\ rbuf[2] = 4
    /\ rbuf[3] = 32

(* C6 *)

\* the reply's status byte carries the read-reply marker: (byte[0] & 0xe0) == 0x20
HasMarker(b0) == (b0 \div 32) % 8 = 1

\* a read transaction whose send succeeded and whose receive returned 3 bytes
ReadGotReply == HasLast /\ LastEvent.op = "read" /\ LastEvent.ret # 0 - 1 /\ rlen = 3

\* C6: a read whose reply status byte lacks the read-reply marker,
\* (byte[0] & 0xe0) != 0x20, fails with the framing error -3 and delivers
\* no register value.
C6_MarkerRejected ==
    (ReadGotReply /\ ~HasMarker(rbuf[1])) =>
        /\ LastEvent.ret = 0 - 3
        /\ pc = "exit"

(* C7 *)

\* a read transaction whose send succeeded
ReadSendOk == HasLast /\ LastEvent.op = "read" /\ LastEvent.ret # 0 - 1

\* C7 as stated: after a successful send the read fails with -2 exactly
\* when the receive returned fewer than 3 bytes.
C7_ShortReadOnlyBelow3 ==
    ReadSendOk => ((LastEvent.ret = 0 - 2) <=> (rlen < 3))

\* C7: after a successful send the read fails with the read-short error -2
\* exactly when the receive returned a byte count other than 3; 4 or 5
\* bytes are refused like 2 or fewer.
C7_ReadLengthExactly3 ==
    ReadSendOk => ((LastEvent.ret = 0 - 2) <=> (rlen # 3))

\* a receive of 4 bytes with a well-formed status byte is refused with -2
C7_Witness ==
    /\ ReadSendOk
    /\ rlen = 4
    /\ rbuf[1] = 32
    /\ LastEvent.ret = 0 - 2
    /\ pc = "exit"

(* C8 *)

ReadPhases == {"startRead", "initRead", "writeRead"}

\* C8: the reads of readAllRegisters come one per register, in the order
\* 0,1,...,5; a failing read is the last event of the run, which ends with
\* a failure status: no higher index is read and nothing is output from the
\* partial batch.
C8_ReadAllOrderAndAbort ==
    \A i \in 1 .. Len(log) :
        (log[i].op = "read") =>
            /\ (log[i].reg = 0) => (i = 1 \/ log[i - 1].op # "read")
            /\ (log[i].reg > 0) =>
                  /\ i > 1
                  /\ log[i - 1].op = "read"
                  /\ log[i - 1].reg = log[i].reg - 1
                  /\ log[i - 1].ret = 0
            /\ (log[i].ret < 0) =>
                  /\ i = Len(log)
                  /\ pc = "exit"
                  /\ exitStatus = EXIT_FAILURE
            /\ (log[i].ret = 0 /\ log[i].reg < NUM_REGS - 1) =>
                  IF i = Len(log)
                  THEN pc \in ReadPhases /\ n = log[i].reg + 1
                  ELSE log[i + 1].op = "read"
            /\ (log[i].ret = 0 /\ log[i].reg = NUM_REGS - 1 /\ i = Len(log)) =>
                  pc \notin ReadPhases

\* a complete batch, then a later batch that fails at register 3
C8_Witness ==
    /\ HasLast
    /\ \E i \in 1 .. Len(log) :
          log[i].op = "read" /\ log[i].reg = NUM_REGS - 1 /\ log[i].ret = 0
    /\ LastEvent.op = "read"
    /\ LastEvent.reg = 3
    /\ LastEvent.ret < 0
    /\ exitStatus = EXIT_FAILURE

(* C9 *)

\* events logged before the first -INIT write: the device list and the
\* message unless quiet, and the six reads of the start
StartLen == IF cfg.quiet THEN NUM_REGS ELSE NUM_REGS + 2

\* six successful reads of registers 0..5 at log[j] .. log[j+5]
CompleteReadAllAt(j) ==
    /\ j >= 1
    /\ j + NUM_REGS - 1 <= Len(log)
    /\ \A k \in Regs :
          log[j + k].op = "read" /\ log[j + k].reg = k /\ log[j + k].ret = 0

\* C9: -INIT issues the writes of REG_INIT to registers 0..5 in index
\* order, exactly six, then one read of all registers; when the write to
\* index k fails the run ends there: the registers below k keep their new
\* values, no higher index is written and no read follows.
C9_BulkInit ==
    cfg.cmdInit =>
        /\ \A k \in 1 .. NUM_REGS :
              (StartLen + k <= Len(log)) =>
                  /\ log[StartLen + k].op = "write"
                  /\ log[StartLen + k].reg = k - 1
                  /\ log[StartLen + k].val = REG_INIT[k - 1]
                  /\ (log[StartLen + k].ret < 0) =>
                        /\ Len(log) = StartLen + k
                        /\ pc = "exit"
                        /\ exitStatus = EXIT_FAILURE
                        /\ \A j \in 0 .. (k - 2) : hw[j] = REG_INIT[j]
        /\ \A i \in 1 .. Len(log) :
              (log[i].op = "write" /\ i <= StartLen + 2 * NUM_REGS) =>
                  i \in (StartLen + 1) .. (StartLen + NUM_REGS)
        /\ (pc = "initWrite") =>
              /\ Len(log) = StartLen + n
              /\ \A j \in 0 .. (n - 1) : hw[j] = REG_INIT[j]
        /\ (pc = "initRead") => Len(log) = StartLen + NUM_REGS + n
        /\ (pc \in {"write", "writeRead", "cmdRead", "printAll", "close"}) =>
              CompleteReadAllAt(StartLen + NUM_REGS + 1)

\* the write to index 2 fails: 0 and 1 hold the new values, 2 was not set
C9_Witness ==
    /\ cfg.cmdInit
    /\ pc = "exit"
    /\ Len(log) = StartLen + 3
    /\ LastEvent = Event("write", 2, REG_INIT[2], 0 - 1)
    /\ hw[0] = REG_INIT[0]
    /\ hw[1] = REG_INIT[1]
    /\ hw[2] # REG_INIT[2]
    /\ exitStatus = EXIT_FAILURE

(* C10 *)

CmdOps == {"msgInit", "write", "msgWrite", "msgRead", "out", "decode"}
OutOps == {"msgRead", "out", "decode"}

\* position of the first read of the run
FirstRead == IF HasLast /\ log[1].op = "devices" THEN 2 ELSE 1

\* position of the last register transaction before log[j], 0 when none
LastTxBefore(j) ==
    LET S == {p \in 1 .. (j - 1) : log[p].op \in {"read", "write"}}
    IN IF S = {} THEN 0 ELSE CHOOSE p \in S : \A q \in S : q <= p

\* C10: a complete read of all registers precedes every command that is
\* serviced, and the six register transactions that last precede any output
\* or decoding of a register value are a complete read of all registers, so
\* that every masked write and every initialization is re-read first.
C10_ReadAllBeforeCommands ==
    \A i \in 1 .. Len(log) :
        /\ (log[i].op \in CmdOps) =>
              (CompleteReadAllAt(FirstRead) /\ FirstRead + NUM_REGS - 1 < i)
        /\ (log[i].op \in OutOps) =>
              CompleteReadAllAt(LastTxBefore(i) - (NUM_REGS - 1))

\* an initialization and a masked write, then the output of a register
C10_Witness ==
    /\ cfg.cmdInit
    /\ cfg.cmdWrite
    /\ HasLast
    /\ LastEvent.op = "out"
    /\ \E i \in 1 .. Len(log) : log[i].op = "write" /\ log[i].reg = 0 /\ log[i].val # REG_INIT[0]

(* C11 *)

\* the value argument just converted lies outside the domain of its option:
\* -r outside 0..5, -m or -w outside 0..0xFFFF
OutOfRange(a) ==
    /\ Len(a) = 2
    /\ \/ a[1] = "-r" /\ (a[2] < 0 \/ a[2] > NUM_REGS - 1)
       \/ a[1] \in {"-m", "-w"} /\ (a[2] < 0 \/ a[2] > 65535)

\* C11: a register index outside 0..5, or a mask or write value outside
\* 0..0xFFFF, ends the run with a failure status in the parser: the device
\* is not opened and no frame was ever sent.
C11_RangeRejectedBeforeOpen ==
    OutOfRange(arg) =>
        /\ pc = "exit"
        /\ exitStatus = EXIT_FAILURE
        /\ log = <<>>
        /\ sent = <<>>
        /\ rbuf = <<>>

\* -r 6 after a valid option
C11_Witness ==
    /\ arg = <<"-r", NUM_REGS>>
    /\ opts # {}
    /\ pc = "exit"
    /\ exitStatus = EXIT_FAILURE
    /\ log = <<>>

(* C12 *)

\* the configuration after `-r 0 -m 0x8000 -w w`
ExpandedCfg(w) ==
    ParseOption(ParseOption(ParseOption(CfgInit, "-r", 0).cfg,
                            "-m", 32768).cfg, "-w", w).cfg

\* C12: a run given only -DMASPDIF (only -DMADAC) enters main's commands
\* with the configuration that `-r 0 -m 0x8000 -w 0x8000`
\* (`-r 0 -m 0x8000 -w 0x0000`) produces.
C12_ShortcutEqualsExpansion ==
    /\ (pc = "open" /\ opts = {"-DMASPDIF"}) => cfg = ExpandedCfg(32768)
    /\ (pc = "open" /\ opts = {"-DMADAC"}) => cfg = ExpandedCfg(0)

----------------------------------------------------------------------------
(* C13: enumerated-field resolution *)

LabelDone == pc = "labelled"

\* the field extracted by the call: numbits bits from firstbit
CallField == (call.regval \div Pow2(call.firstbit)) % Pow2(call.numbits)

\* positions of the declared entries (the terminating entry is the last)
CallEntries == 1 .. (Len(call.labels) - 1)

CallMatches == {i \in CallEntries : call.labels[i][1] = CallField}

CallFallback == call.labels[Len(call.labels)][2]

CallChosen == call.out[1].text.txt

Min(S) == CHOOSE x \in S : \A y \in S : x <= y

Max(S) == CHOOSE x \in S : \A y \in S : x >= y

\* C13 as stated: the label chosen is that of the first entry, in
\* declaration order, whose value equals the extracted field; the fallback
\* label of the terminating entry when no entry matches.
C13_FirstMatchWins ==
    LabelDone =>
        CallChosen = (IF CallMatches = {} THEN CallFallback
                      ELSE call.labels[Min(CallMatches)][2])

\* C13 amended: the label chosen is that of the last entry, in declaration
\* order, whose value equals the extracted field; the fallback label of the
\* terminating entry when no entry matches.
C13_LastMatchWins ==
    LabelDone =>
        CallChosen = (IF CallMatches = {} THEN CallFallback
                      ELSE call.labels[Max(CallMatches)][2])

\* a table declaring the field's value twice: the later label is printed
C13_Witness ==
    /\ LabelDone
    /\ Len(call.labels) = 4
    /\ CallMatches = {1, 3}
    /\ CallChosen = "L3"
    /\ call.firstbit = 14

----------------------------------------------------------------------------
(* C14, C15, C18: the printout of the registers *)

\* the printouts in the log: ret holds the header and the field lines
DecodeEvents == {k \in DOMAIN log : log[k].op = "decode"}

Header(e) == e.ret[1]

FieldLines(e) == 2 .. Len(e.ret)

Span(l) == l.lo .. l.hi

\* C14: when the raw value equals the register's default the header and
\* every field line are rendered as default; and for every field line,
\* inverting one bit of the raw value outside the line's bit span leaves
\* the line's default/changed classification as it is.
C14_DefaultClassification ==
    pc = "close" =>
    \A k \in DecodeEvents :
        LET e == log[k] IN
        /\ e.val = REG_DEFAULT[e.reg] =>
              /\ ~Header(e).hilight
              /\ \A i \in FieldLines(e) : ~e.ret[i].hilight
        /\ \A b \in BitIdx :
              LET flipped == PrintReg(e.reg, FlipBit(e.val, b)) IN
              \A i \in FieldLines(e) :
                  b \notin Span(e.ret[i]) => flipped[i].hilight = e.ret[i].hilight

\* register 0 with only bit 15 changed: its line alone is rendered as
\* changed, and register 1, left at its default, is rendered as default
C14_Witness ==
    /\ pc = "close"
    /\ \E k \in DecodeEvents :
         /\ log[k].reg = 0
         /\ log[k].val = FlipBit(REG_DEFAULT[0], 15)
         /\ \A i \in FieldLines(log[k]) :
              log[k].ret[i].hilight <=> (15 \in Span(log[k].ret[i]))
    /\ \E k \in DecodeEvents :
         /\ log[k].reg = 1
         /\ log[k].val = REG_DEFAULT[1]
         /\ \A i \in DOMAIN log[k].ret : ~log[k].ret[i].hilight

\* the fields printed as a number
NumericLabels == {"Category code", "Sensitivity to FLY tuner volume"}

DigitValue(d) ==
    CHOOSE v \in 0 .. 9 :
        d = <<"0", "1", "2", "3", "4", "5", "6", "7", "8", "9">>[v + 1]

\* the number written by a sequence of decimal digits
RECURSIVE FromDecimal(_)
FromDecimal(ds) ==
    IF Len(ds) = 0 THEN 0
    ELSE 10 * FromDecimal(SubSeq(ds, 1, Len(ds) - 1)) + DigitValue(ds[Len(ds)])

\* the bits lo .. hi of raw, as a number
FieldOf(raw, l) == (raw \div Pow2(l.lo)) % Pow2(l.hi - l.lo + 1)

\* C15: every numeric field is printed as the decimal value of exactly the
\* bits of its declared position and width, the bits of its classification.
C15_NumericFieldDeclaredBits ==
    \A k \in DecodeEvents : \A i \in FieldLines(log[k]) :
        log[k].ret[i].label \in NumericLabels =>
            FromDecimal(log[k].ret[i].text) = FieldOf(log[k].val, log[k].ret[i])

\* C18: the header of a register is marked changed if and only if at least
\* one of the register's field lines is marked changed.
C18_HeaderIffSomeField ==
    \A k \in DecodeEvents :
        Header(log[k]).hilight <=> \E i \in FieldLines(log[k]) : log[k].ret[i].hilight

----------------------------------------------------------------------------
(* C16: the value output by -r *)

\* the value output by -r has just been printed
AtOutput == HasLast /\ LastEvent.op = "out"

\* position of the first of the six register transactions before the output
OutputReadAll == LastTxBefore(Len(log)) - NUM_REGS + 1

\* the value the last read of all registers obtained for register r
OutputRead(r) == log[OutputReadAll + r].val

\* C16: the value output by -r is (register value & mask), the mask bits
\* only and unshifted, of the value obtained by the most recent complete
\* read of all registers; this is the value the device holds, so the bits
\* a masked write of the same run has set, or else the value -INIT has
\* written, are what is output.
C16_ReadOutput ==
    AtOutput =>
        /\ CompleteReadAllAt(OutputReadAll)
        /\ LastEvent.reg = cfg.reg
        /\ LastEvent.val \in 0 .. 65535
        /\ \A i \in BitIdx :
             Bit(LastEvent.val, i) = (IF Bit(cfg.mask, i) = 1
                                      THEN Bit(OutputRead(cfg.reg), i) ELSE 0)
        /\ OutputRead(cfg.reg) = hw[cfg.reg]
        /\ cfg.cmdWrite =>
             \A i \in BitIdx :
                 Bit(cfg.mask, i) = 1 => Bit(LastEvent.val, i) = Bit(cfg.writeVal, i)
        /\ (cfg.cmdInit /\ ~cfg.cmdWrite) =>
             \A i \in BitIdx :
                 Bit(cfg.mask, i) = 1 => Bit(LastEvent.val, i) = Bit(REG_INIT[cfg.reg], i)

\* -DMASPDIF -r 0 on a register holding 0x00FF: the bit just written is
\* output, the other bits of the register are not
C16_Witness ==
    /\ AtOutput
    /\ opts = {"-DMASPDIF", "-r"}
    /\ hw[0] = 33023
    /\ LastEvent = Event("out", 0, 32768, 0)

----------------------------------------------------------------------------
(* C17: a well-formed reply *)

\* C17: a read whose send returned 5, whose receive returned 3 and whose
\* reply status byte carries the read-reply marker, whatever its low five
\* bits, succeeds: it returns 0 and stores (byte[2] << 8) | byte[1].
C17_WellFormedReplyAccepted ==
    (ReadGotReply /\ HasMarker(rbuf[1])) =>
        /\ LastEvent.ret = 0
        /\ regbuf[LastEvent.reg] = rbuf[3] * 256 + rbuf[2]

----------------------------------------------------------------------------
(* C19: the order of the commands of one run *)

\* positions of the -INIT writes and of the other writes in the log
InitWritePos ==
    IF cfg.cmdInit
    THEN {i \in (StartLen + 1) .. (StartLen + NUM_REGS) : i <= Len(log)}
    ELSE {}

MaskedWritePos == {i \in 1 .. Len(log) : log[i].op = "write"} \ InitWritePos

OpPos(ops) == {i \in 1 .. Len(log) : log[i].op \in ops}

\* every position of A lies before every position of B
Before(A, B) == \A i \in A : \A j \in B : i < j

\* position of the first read of the last read of all registers before log[i]
ReadAllBefore(i) == LastTxBefore(i) - NUM_REGS + 1

\* C19: the commands of a run are serviced in the order bulk-initialize,
\* masked write, read output, decode-all; which commands are serviced
\* depends only on which options were given, not on their order; after
\* -INIT the masked write is computed from the value re-read after the
\* initialization; at most one masked write is sent per run.
C19_CommandOrder ==
    /\ Before(InitWritePos \cup OpPos({"msgInit"}), MaskedWritePos \cup OpPos({"msgWrite"}))
    /\ Before(InitWritePos \cup MaskedWritePos, OpPos({"msgRead", "out"}))
    /\ Before(InitWritePos \cup MaskedWritePos \cup OpPos({"msgRead", "out"}),
              OpPos({"decode"}))
    /\ Cardinality(MaskedWritePos) <= 1
    /\ Cardinality(OpPos({"out"})) <= 1
    /\ cfg.cmdInit <=> "-INIT" \in opts
    /\ cfg.cmdWrite <=> opts \cap {"-w", "-DMADAC", "-DMASPDIF"} # {}
    /\ cfg.cmdRead <=> "-r" \in opts
    /\ cfg.cmdPrintAll <=> "-A" \in opts
    /\ (InitWritePos # {}) => cfg.cmdInit
    /\ (MaskedWritePos # {}) => cfg.cmdWrite
    /\ (OpPos({"out"}) # {}) => cfg.cmdRead
    /\ (OpPos({"decode"}) # {}) => cfg.cmdPrintAll
    /\ (pc \in {"close", "exit"} /\ exitStatus = 0 /\ Len(log) > 0) =>
          /\ cfg.cmdInit => Cardinality(InitWritePos) = NUM_REGS
          /\ cfg.cmdWrite => MaskedWritePos # {}
          /\ cfg.cmdRead => OpPos({"out"}) # {}
          /\ cfg.cmdPrintAll => Cardinality(OpPos({"decode"})) = NUM_REGS
    /\ \A i \in MaskedWritePos :
          /\ log[i].reg = cfg.reg
          /\ CompleteReadAllAt(ReadAllBefore(i))
          /\ cfg.cmdInit => ReadAllBefore(i) = StartLen + NUM_REGS + 1
          /\ \A b \in BitIdx :
               Bit(log[i].val, b) =
                  (IF Bit(cfg.mask, b) = 1 THEN Bit(cfg.writeVal, b)
                   ELSE Bit(log[ReadAllBefore(i) + cfg.reg].val, b))

\* -INIT, -DMASPDIF and -A on a device whose registers all held 0xFFFF:
\* register 0 is written as 0xA004, bit 15 on top of the 0x2004 re-read
\* after the initialization, and the printout comes last
C19_Witness ==
    /\ pc = "close"
    /\ opts = {"-INIT", "-DMASPDIF", "-A"}
    /\ log[FirstRead].op = "read"
    /\ log[FirstRead].val = 65535
    /\ \E i \in MaskedWritePos : log[i].reg = 0 /\ log[i].val = 40964
    /\ Cardinality(InitWritePos) = NUM_REGS
    /\ LastEvent.op = "decode"

====
